---- MODULE Spec2Model ----
(***************************************************************************)
(* Batch submission and reconciliation engine of IMEI_PROCESSOR.           *)
(*                                                                         *)
(* ProductionSubmissionSystem.submit_batch (production_submission_system), *)
(* the GSMFusionClient calls it makes (gsm_fusion_client) and the orders   *)
(* table it writes (database) are modelled as one state machine.           *)
(* Identifiers are the integers 1..n: the k-th identifier of the list.     *)
(* Python lists whose order no property reads (all_orders, all_errors)     *)
(* are sets of pairwise distinct records; len() is Cardinality.            *)
(***************************************************************************)
EXTENDS Integers, Sequences, FiniteSets, TLC

VARIABLES
    entry,              \* the operation the run exercises
    imeis,              \* submit_batch / process_batch: the identifier list
    batch_size,         \* self.batch_size / self.chunk_size
    max_workers,        \* self.max_workers
    scripted,           \* TRUE: the service answers by ScenarioResponse
    fut,                \* future_to_batch: per chunk, the worker's state
    taken,              \* chunks whose future as_completed has yielded
    faults,             \* per chunk, the exceptions its result handling met
    all_orders,         \* submit_batch: all_orders
    all_errors,         \* submit_batch: all_errors
    processed_batches,  \* submit_batch: processed_batches
    checkpoint,         \* content of checkpoint_<batch_id>.json
    progress,           \* arguments of the last progress_callback call
    pc,                 \* position of the batch call: "running", "done"
    result,             \* the SubmissionResult returned
    aggregate,          \* BatchIMEIProcessor.process_batch: aggregate
    bp,                 \* BatchProcessor._process_with_retry for one order
    rows,               \* the orders table (committed rows)
    lock,               \* the connection holding the table's write lock (0: none)
    writers,            \* threads inserting orders into the table
    cycles,             \* reconciliation and auto-parse runs
    next_id,            \* the service: the order id it assigns next
    requests,           \* requests of the routes /submit and /submit-stream
    inv,                \* invocations of sync_and_parse_orders and manual_sync.py
    fn                  \* the last call of a function checked on its own

cfgVars == <<entry, imeis, batch_size, max_workers, scripted>>

aggVars == <<taken, faults, all_orders, all_errors, processed_batches,
             checkpoint, progress, aggregate>>

storeVars == <<lock, writers, cycles>>

webVars == <<next_id, requests>>

runVars == <<cfgVars, fut, aggVars, pc, result, bp, rows, storeVars, webVars, inv>>

vars == <<cfgVars, fut, aggVars, pc, result, bp, rows, storeVars, webVars, inv, fn>>

-----------------------------------------------------------------------------
(* Bounds of the model *)

MaxImeis == 2
MaxBatchSize == 2
MaxWorkers == 2
MaxOrders == 2
MaxWriters == 2
MaxRequests == 2
MaxInvocations == 2
MaxListLen == 4
MaxChunkSize == 3
MaxPairs == 2

(* Program constants *)

MaxRetries == 3
RetryDelay == 1
BpMaxRetries == 3
ScenarioImeis == 10
ScenarioWorkers == 3

None == "None"

Range(s) == {s[i] : i \in 1..Len(s)}

Min(a, b) == IF a < b THEN a ELSE b

Max(a, b) == IF a > b THEN a ELSE b

-----------------------------------------------------------------------------
(* gsm_fusion_client.py *)

\* Text of the <error> element the service puts in a rejection.
ServiceMsgs == {"Invalid IMEI"}

\* What one HTTP round trip of action placeorder can give for the
\* identifiers ids: no answer in time, an XML document with an <error>
\* element, a document of an unexpected shape, or a document with <imeis>
\* (accepted) and <imeiduplicates> entries for some of the identifiers.
OkResponses(ids) ==
    {r \in [kind : {"ok"}, msg : {None}, acc : SUBSET ids, dup : SUBSET ids] :
        r.acc \cap r.dup = {}}

RawResponses(ids) ==
    {[kind |-> "timeout", msg |-> None, acc |-> {}, dup |-> {}]}
    \cup {[kind |-> "error", msg |-> m, acc |-> {}, dup |-> {}] : m \in ServiceMsgs}
    \cup {[kind |-> "garbage", msg |-> None, acc |-> {}, dup |-> {}]}
    \cup OkResponses(ids)

\* _make_request: the response text, or GSMFusionAPIError on a timeout.
MakeRequest(raw) ==
    IF raw.kind = "timeout"
    THEN [exc |-> "api", msg |-> <<"Request timed out">>, text |-> None]
    ELSE [exc |-> "none", msg |-> <<>>, text |-> raw]

\* _parse_xml_response: GSMFusionAPIError("API Error: <text>") when the
\* document has an <error> element; otherwise always a dict, never a str.
ParseXmlResponse(text) ==
    IF text.kind = "error"
    THEN [exc |-> "api", msg |-> <<"API Error: ", text.msg>>, type |-> None, data |-> None]
    ELSE [exc |-> "none", msg |-> <<>>, type |-> "dict", data |-> text]

\* An accepted order as place_imei_order builds it from <imeis>.
Order(i) == [id |-> i, imei |-> i, status |-> "Pending"]

\* place_imei_order(imei, network_id, force_recheck): the result dict, or
\* the exception raised.
PlaceImeiOrder(raw, ids, force_recheck) ==
    LET req    == MakeRequest(raw)
        parsed == ParseXmlResponse(req.text)
        empty  == [exc |-> "none", msg |-> <<>>, orders |-> {}, duplicates |-> {}, errors |-> {}]
    IN  IF req.exc # "none"
        THEN [empty EXCEPT !.exc = req.exc, !.msg = req.msg]
        ELSE IF parsed.exc # "none"
        THEN [empty EXCEPT !.exc = parsed.exc, !.msg = parsed.msg]
        ELSE IF parsed.type = "str"
        THEN IF force_recheck
             THEN [empty EXCEPT !.errors = {<<"FORCE RECHECK FAILED: ", parsed.data>>}]
             ELSE [empty EXCEPT !.duplicates = ids]
        ELSE IF parsed.data.kind = "garbage"
        THEN [empty EXCEPT !.exc = "other", !.msg = <<"'str' object has no attribute 'get'">>]
        ELSE [empty EXCEPT !.orders = {Order(i) : i \in parsed.data.acc},
                           !.duplicates = parsed.data.dup]

-----------------------------------------------------------------------------
(* production_submission_system.py *)

\* _generate_batch_id: a digest of the sorted identifiers.
GenerateBatchId(batch) == [tag |-> "md5", ids |-> Range(batch), n |-> 0]

\* f'batch_{batch_num + 1}', the id of a result-processing error record.
BatchLabel(c) == [tag |-> "batch", ids |-> {}, n |-> c]

NoBatchId == [tag |-> "none", ids |-> {}, n |-> 0]

ChunkImeisFullOnly(list, size) ==
    [k \in 1..(Len(list) \div size) |-> SubSeq(list, (k - 1) * size + 1, k * size)]

\* _chunk_imeis: [imeis[i:i + size] for i in range(0, len(imeis), size)]
ChunkImeis(list, size) ==
    [k \in 1..((Len(list) + size - 1) \div size) |->
        SubSeq(list, (k - 1) * size + 1, Min(k * size, Len(list)))]

\* _chunk_list: [items[i:i + chunk_size] for i in range(0, len(items), chunk_size)]
ChunkList(items, chunk_size) ==
    [k \in 1..((Len(items) + chunk_size - 1) \div chunk_size) |->
        SubSeq(items, (k - 1) * chunk_size + 1, Min(k * chunk_size, Len(items)))]

batches == ChunkImeis(imeis, batch_size)

total_batches == Len(batches)

ErrorRecord(batch_id, ids, error) ==
    [batch_id |-> batch_id, imeis |-> ids, error |-> error]

RetryAllowedOnLastAttempt(attempt) == attempt < MaxRetries

\* "if attempt < self.max_retries - 1": another attempt follows.
RetryAllowed(attempt) == attempt < MaxRetries - 1

BackoffDelayConstant(attempt) == RetryDelay

\* "delay = self.retry_delay * (2 ** attempt)", handed to time.sleep.
BackoffDelay(attempt) == RetryDelay * (2 ^ attempt)

\* The answers the service can give to call number callno for chunk c.
ScenarioFlaky == 3
ScenarioRejected == 7
ScenarioTransientFailures == 2

ScenarioResponse(ids, callno) ==
    IF ScenarioFlaky \in ids /\ callno <= ScenarioTransientFailures
    THEN [kind |-> "timeout", msg |-> None, acc |-> {}, dup |-> {}]
    ELSE IF ScenarioRejected \in ids
    THEN [kind |-> "error", msg |-> "Invalid IMEI", acc |-> {}, dup |-> {}]
    ELSE [kind |-> "ok", msg |-> None, acc |-> ids, dup |-> {}]

ServiceResponses(ids, callno) ==
    IF scripted THEN {ScenarioResponse(ids, callno)} ELSE RawResponses(ids)

\* Faults of the environment of the aggregation loop.
Faults == IF scripted THEN {FALSE} ELSE BOOLEAN

AttemptStepUntilSuccess(f, batch, raw) ==
    LET r == PlaceImeiOrder(raw, Range(batch), FALSE)
    IN  IF r.exc = "none"
        THEN [f EXCEPT !.st = "done", !.calls = Min(f.calls + 1, MaxRetries + 1),
                       !.last = raw.kind, !.orders = r.orders]
        ELSE [f EXCEPT !.calls = Min(f.calls + 1, MaxRetries + 1), !.last = raw.kind]

\* One iteration of "for attempt in range(self.max_retries)" for a chunk:
\* the state of the worker after the call answered by raw.  A loop that
\* runs out of attempts falls through to "return [], [], batch_id".
\* calls, last, rejected_at and slept are history: the number of
\* place_imei_order calls made, the kind of the last answer, the number of
\* the first call the service answered with an <error> document (0: none
\* yet), and the delays handed to time.sleep so far.
AttemptStep(f, batch, raw) ==
    LET r        == PlaceImeiOrder(raw, Range(batch), FALSE)
        batch_id == GenerateBatchId(batch)
        called   == [f EXCEPT !.calls = f.calls + 1, !.last = raw.kind,
                              !.rejected_at = IF raw.kind = "error" /\ f.rejected_at = 0
                                              THEN f.calls + 1 ELSE f.rejected_at,
                              !.slept = IF r.exc # "none" /\ RetryAllowed(f.attempt)
                                        THEN Append(f.slept, BackoffDelay(f.attempt))
                                        ELSE f.slept]
    IN  IF r.exc = "none"
        THEN [called EXCEPT !.st = "done",
                            !.orders = r.orders,
                            !.errors = {ErrorRecord(batch_id, Range(batch), <<m>>) : m \in r.errors}]
        ELSE IF RetryAllowed(f.attempt)
        THEN IF f.attempt + 1 < MaxRetries
             THEN [called EXCEPT !.attempt = f.attempt + 1]
             ELSE [called EXCEPT !.st = "done", !.orders = {}, !.errors = {}]
        ELSE [called EXCEPT !.st = "done",
                            !.orders = {},
                            !.errors = {ErrorRecord(batch_id, Range(batch),
                                IF r.exc = "api"
                                THEN <<"Max retries exhausted: ">> \o r.msg
                                ELSE <<"Unexpected error: ">> \o r.msg)}]

-----------------------------------------------------------------------------
(* The orders table (database.py, _create_tables_sqlite) *)

\* The result columns update_order_status can write.
ResultFields == {"carrier", "model", "simlock", "fmi", "imei2", "serial_number",
                 "meid", "gsma_status", "purchase_date", "applecare", "tether_policy"}

NoData == [f \in ResultFields |-> None]

\* A row of the table.  The table is a multiset: copy numbers the rows
\* that carry the same order_id, so that a second row for an order_id is a
\* second element of the set.  The autoincrement key id, which nothing
\* reads back, is left out.
Row(table, order_id, imei, status, result_code, data) ==
    [order_id |-> order_id, imei |-> imei, status |-> status,
     result_code |-> result_code, result_code_display |-> <<>>, data |-> data,
     copy |-> Cardinality({r \in table : r.order_id = order_id})]

NoUniqueConstraint(table, order_id) == FALSE

\* order_id TEXT UNIQUE NOT NULL: the insert conflicts with a stored row.
UniqueViolation(table, order_id) == \E r \in table : r.order_id = order_id

\* _store_orders_atomic: the loop over orders inside one transaction; an
\* IntegrityError of one INSERT is caught and counted as skipped.
RECURSIVE StoreOrdersLoop(_, _, _, _)
StoreOrdersLoop(table, orders, stored, skipped) ==
    IF orders = {}
    THEN [rows |-> table, stored |-> stored, skipped |-> skipped]
    ELSE LET o == CHOOSE x \in orders : \A y \in orders : x.id <= y.id
         IN  IF UniqueViolation(table, o.id)
             THEN StoreOrdersLoop(table, orders \ {o}, stored, skipped + 1)
             ELSE StoreOrdersLoop(
                    table \cup {Row(table, o.id, o.imei, o.status, <<>>, NoData)},
                    orders \ {o}, stored + 1, skipped)

StoreOrdersAtomic(table, orders) == StoreOrdersLoop(table, orders, 0, 0)

-----------------------------------------------------------------------------
(* State of a run *)

\* A worker of the thread pool: st is "queued", "running" or "done";
\* attempt is the loop variable of _submit_batch_with_retry; mode, idx,
\* successful and duplicates are the locals of _submit_chunk.
NewFuture ==
    [st |-> "queued", attempt |-> 0, calls |-> 0, last |-> None, rejected_at |-> 0,
     slept |-> <<>>, mode |-> None, idx |-> 1, orders |-> {}, errors |-> {},
     successful |-> {}, duplicates |-> {}]

NoCheckpoint ==
    [batch_id |-> NoBatchId, completed_batches |-> 0, total_batches |-> 0,
     successful_orders |-> 0, failed_imeis |-> {}]

NoProgress == [processed |-> 0, total |-> 0]

NoResult ==
    [total |-> 0, successful |-> 0, failed |-> 0, duplicates |-> 0,
     orders |-> {}, errors |-> {}]

NoAggregate ==
    [total |-> 0, successful |-> 0, duplicates |-> 0, errors |-> 0,
     orders |-> {}, error_details |-> {}]

NoBatchResult ==
    [imei |-> 0, order_id |-> 0, status |-> None, success |-> FALSE,
     error |-> <<>>, attempts |-> 1]

NewBp == [st |-> "idle", attempt |-> 1, calls |-> 0, last_result |-> NoBatchResult,
          result |-> NoBatchResult]

\* A thread that inserts: pc is "idle" or "txn" (inside the transaction of
\* _store_orders_atomic); todo, mine, stored and skipped are the orders
\* still to insert, the rows inserted and not yet committed, and the two
\* counters; last is history: the last INSERT this thread executed.
NoInsert == [order_id |-> 0, existed |-> FALSE, changed |-> FALSE, ret |-> None]

NewWriter ==
    [pc |-> "idle", todo |-> {}, mine |-> {}, stored |-> 0, skipped |-> 0,
     last |-> NoInsert]

CycleKinds == {"sync_orders", "sync_and_parse_orders", "parse_all_orders"}

\* A run of one of the three: pc is "idle" or "selected"; ids are the
\* order ids read by its SELECT; orders are the rows parse_all_orders read.
NewCycle == [pc |-> "idle", ids |-> {}, orders |-> {}, updated |-> 0]

\* A request of a submission route: pc is "idle", "submitting" (validated,
\* the stored orders looked up) or "saving" (the service has answered);
\* existing_count is the count of the duplicate check of /submit-stream;
\* called and known are history: the service was called for imeis, and the
\* identifiers among them that had a stored order at that moment.
NewRequest ==
    [pc |-> "idle", route |-> None, imeis |-> {}, force_recheck |-> FALSE,
     existing_count |-> 0, called |-> FALSE, known |-> {}, orders |-> {}]

\* The poll has no order for an id asked.
NoOrder == [id |-> 0, status |-> "", code |-> <<>>]

\* An invocation of a reconciliation cycle: pc is "idle", "polling" (the
\* pending orders selected), "updating" (inside "for order in orders"),
\* "returned" or "raised"; ids are the order ids selected and orders the
\* ids of the polled orders still to handle; calls counts the
\* get_imei_orders calls; polled, processed and errors count the orders
\* the poll gave, the iterations of the loop begun and the exceptions
\* caught; last is the polled order of the last iteration.
\* No function was called yet.
NoCall == [op |-> None, args |-> <<>>, out |-> <<>>, done |-> FALSE]

NewInvocation ==
    [pc |-> "idle", kind |-> None, ids |-> {}, orders |-> {}, calls |-> 0,
     polled |-> 0, processed |-> 0, parse_failures |-> 0, errors |-> 0,
     last |-> NoOrder]

IdList(n) == [i \in 1..n |-> i]

Entries == {"submit_batch", "process_batch", "process_with_retry"}

InitCall(e, list, size, workers, script, table, call) ==
    /\ entry = e
    /\ imeis = list
    /\ batch_size = size
    /\ max_workers = workers
    /\ scripted = script
    /\ fut = [c \in 1..Len(ChunkImeis(list, size)) |-> NewFuture]
    /\ taken = {}
    /\ faults = [c \in 1..Len(ChunkImeis(list, size)) |-> {}]
    /\ all_orders = {}
    /\ all_errors = {}
    /\ processed_batches = 0
    /\ checkpoint = NoCheckpoint
    /\ progress = NoProgress
    /\ pc = "running"
    /\ result = NoResult
    /\ aggregate = [NoAggregate EXCEPT !.total = Len(list)]
    /\ bp = NewBp
    /\ rows = table
    /\ lock = 0
    /\ writers = [w \in 1..MaxWriters |-> NewWriter]
    /\ cycles = [k \in CycleKinds |-> NewCycle]
    /\ next_id = 1
    /\ requests = [r \in 1..MaxRequests |-> NewRequest]
    /\ inv = [i \in 1..MaxInvocations |-> NewInvocation]
    /\ fn = call

InitTable(e, list, size, workers, script, table) ==
    InitCall(e, list, size, workers, script, table, NoCall)

InitRun(e, list, size, workers, script) == InitTable(e, list, size, workers, script, {})

\* One run of submit_batch, of process_batch or of _process_with_retry.
Init ==
    \/ \E e \in {"submit_batch", "process_batch"}, n \in 0..MaxImeis,
          size \in 1..MaxBatchSize, workers \in 1..MaxWorkers :
            InitRun(e, IdList(n), size, workers, FALSE)
    \/ InitRun("process_with_retry", IdList(1), 1, 1, FALSE)

InitScenario ==
    InitRun("submit_batch", IdList(ScenarioImeis), 1, ScenarioWorkers, TRUE)

-----------------------------------------------------------------------------
(* The thread pool (ThreadPoolExecutor, as_completed) *)

Running == {c \in DOMAIN fut : fut[c].st = "running"}

Queued == {c \in DOMAIN fut : fut[c].st = "queued"}

\* A free thread of the pool takes the oldest queued chunk.
StartWorker(c) ==
    /\ entry \in {"submit_batch", "process_batch"}
    /\ pc = "running"
    /\ c \in Queued
    /\ \A d \in Queued : c <= d
    /\ Cardinality(Running) < max_workers
    /\ fut' = [fut EXCEPT ![c].st = "running",
                          ![c].mode = IF entry = "process_batch"
                                      THEN IF batch_size > 1 THEN "batch" ELSE "individual"
                                      ELSE None]
    /\ UNCHANGED <<cfgVars, fn, webVars, inv, aggVars, pc, result, bp, rows, storeVars>>

-----------------------------------------------------------------------------
(* ProductionSubmissionSystem.submit_batch *)

\* One place_imei_order call of the worker of chunk c and what the retry
\* loop does with its outcome.
SubmitAttempt(c) ==
    /\ entry = "submit_batch"
    /\ fut[c].st = "running"
    /\ \E raw \in ServiceResponses(Range(batches[c]), fut[c].calls + 1) :
          fut' = [fut EXCEPT ![c] = AttemptStep(fut[c], batches[c], raw)]
    /\ UNCHANGED <<cfgVars, fn, webVars, inv, aggVars, pc, result, bp, rows, storeVars>>

\* The record appended when _store_orders_atomic raises.
StoreFailureRecord(batch_id, orders) ==
    ErrorRecord(batch_id, {o.imei : o \in orders},
                <<"Database storage failed: ", "database is locked">>)

\* The record of the handler "except Exception" of the aggregation loop.
ResultProcessingError(c) ==
    ErrorRecord(BatchLabel(c), Range(batches[c]),
                <<"Result processing error: ", "callback failed">>)

HandleResultExceptionOverwrite(errors, c) == {ResultProcessingError(c)}

HandleResultException(errors, c) == errors \cup {ResultProcessingError(c)}

\* failed_imeis_flat
FailedImeisFlat(errors) == UNION {e.imeis : e \in errors}

CheckpointRecordAhead(completed, orders, errors) ==
    [batch_id |-> GenerateBatchId(imeis),
     completed_batches |-> completed + 1,
     total_batches |-> total_batches,
     successful_orders |-> Cardinality(orders),
     failed_imeis |-> FailedImeisFlat(errors)]

\* The checkpoint dict of _save_checkpoint as submit_batch fills it.
CheckpointRecord(completed, orders, errors) ==
    [batch_id |-> GenerateBatchId(imeis),
     completed_batches |-> completed,
     total_batches |-> total_batches,
     successful_orders |-> Cardinality(orders),
     failed_imeis |-> FailedImeisFlat(errors)]

SaveCheckpointRaises(old, new, fails) ==
    [checkpoint |-> IF fails THEN old ELSE new, raised |-> fails]

\* _save_checkpoint: the file after the call; a failure of the write is
\* caught and logged (raised: whether an exception leaves the method).
SaveCheckpoint(old, new, fails) ==
    [checkpoint |-> IF fails THEN old ELSE new, raised |-> FALSE]

\* The body of "for future in as_completed(future_to_batch)" for chunk c.
\* store_fails: _store_orders_atomic raises (and rolls back); ckpt_fails:
\* the checkpoint file cannot be written; cb_raises: progress_callback
\* raises.
ProcessResult(c) ==
    /\ entry = "submit_batch"
    /\ pc = "running"
    /\ fut[c].st = "done"
    /\ c \notin taken
    /\ \E store_fails \in Faults, ckpt_fails \in Faults, cb_raises \in Faults :
          LET orders          == fut[c].orders
              batch_id_result == GenerateBatchId(batches[c])
              store_raised    == orders # {} /\ store_fails
              orders1         == all_orders \cup orders
              errors1         == all_errors \cup fut[c].errors
              errors2         == IF store_raised
                                 THEN errors1 \cup {StoreFailureRecord(batch_id_result, orders)}
                                 ELSE errors1
              saved           == SaveCheckpoint(checkpoint,
                                    CheckpointRecord(processed_batches + 1, orders1, errors2),
                                    ckpt_fails)
              cb_raised       == ~saved.raised /\ cb_raises
          IN  /\ all_orders' = orders1
              /\ processed_batches' = processed_batches + 1
              /\ rows' = IF orders # {} /\ ~store_fails
                         THEN StoreOrdersAtomic(rows, orders).rows
                         ELSE rows
              /\ checkpoint' = saved.checkpoint
              /\ progress' = IF saved.raised THEN progress
                             ELSE [processed |-> processed_batches + 1, total |-> total_batches]
              /\ all_errors' = IF saved.raised \/ cb_raised
                               THEN HandleResultException(errors2, c) ELSE errors2
              /\ faults' = [faults EXCEPT ![c] =
                              (IF store_raised THEN {"store"} ELSE {})
                              \cup (IF ckpt_fails THEN {"checkpoint"} ELSE {})
                              \cup (IF cb_raised THEN {"callback"} ELSE {})]
    /\ taken' = taken \cup {c}
    /\ UNCHANGED <<cfgVars, fn, webVars, inv, fut, aggregate, pc, result, bp, storeVars>>

\* "Calculate final metrics": the SubmissionResult.
SubmissionResult ==
    [total      |-> Len(imeis),
     successful |-> Cardinality(all_orders),
     failed     |-> Cardinality(all_errors),
     duplicates |-> Max(0, Len(imeis) - Cardinality(all_orders) - Cardinality(all_errors)),
     orders     |-> all_orders,
     errors     |-> all_errors]

\* The pool's "with" block ends when every future has been handled.
Return ==
    /\ entry = "submit_batch"
    /\ pc = "running"
    /\ taken = DOMAIN fut
    /\ pc' = "done"
    /\ result' = SubmissionResult
    /\ UNCHANGED <<cfgVars, fn, webVars, inv, fut, aggVars, bp, rows, storeVars>>

-----------------------------------------------------------------------------
(* batch_optimizer.py: BatchIMEIProcessor *)

\* An entry of result['errors']; imei 0 stands for the literal 'batch'.
ChunkError(imei, message) == [imei |-> imei, message |-> message]

\* An entry of result['successful'].
Successful(imei, o) == [imei |-> imei, order_id |-> o.id, status |-> o.status]

\* _submit_chunk, one step of it: the constructor at its head, the batch
\* call, or one iteration of the fallback loop "for imei in imeis".
SubmitChunkStep(f, batch, raw, ctor_fails) ==
    LET ids    == Range(batch)
        called == [f EXCEPT !.calls = f.calls + 1, !.last = raw.kind]
    IN  IF f.calls = 0 /\ ctor_fails
        THEN [f EXCEPT !.st = "done",
                       !.errors = {ChunkError(i, <<"Chunk processing error: ", "API key is required">>)
                                     : i \in ids}]
        ELSE IF f.mode = "batch"
        THEN LET r == PlaceImeiOrder(raw, ids, FALSE)
             IN  IF r.exc = "none"
                 THEN [called EXCEPT !.st = "done",
                                     !.successful = {Successful(o.imei, o) : o \in r.orders},
                                     !.orders = r.orders,
                                     !.duplicates = r.duplicates,
                                     !.errors = {ChunkError(0, m) : m \in r.errors}]
                 ELSE [called EXCEPT !.mode = "individual", !.idx = 1]
        ELSE LET imei == batch[f.idx]
                 r    == PlaceImeiOrder(raw, {imei}, FALSE)
                 step == [called EXCEPT !.idx = f.idx + 1,
                                        !.st = IF f.idx = Len(batch) THEN "done" ELSE "running"]
             IN  IF r.exc # "none"
                 THEN [step EXCEPT !.errors = @ \cup {ChunkError(imei, r.msg)}]
                 ELSE IF r.orders # {}
                 THEN [step EXCEPT !.successful = @ \cup {Successful(imei, o) : o \in r.orders},
                                   !.orders = @ \cup r.orders]
                 ELSE IF r.duplicates # {}
                 THEN [step EXCEPT !.duplicates = @ \cup {imei}]
                 ELSE IF r.errors # {}
                 THEN [step EXCEPT !.errors = @ \cup {ChunkError(imei, m) : m \in r.errors}]
                 ELSE step

\* The identifiers the next call of the worker of chunk c submits.
CallIds(c) ==
    IF fut[c].mode = "batch" THEN Range(batches[c]) ELSE {batches[c][fut[c].idx]}

SubmitChunk(c) ==
    /\ entry = "process_batch"
    /\ fut[c].st = "running"
    /\ \E raw \in RawResponses(CallIds(c)), ctor_fails \in Faults :
          fut' = [fut EXCEPT ![c] = SubmitChunkStep(fut[c], batches[c], raw, ctor_fails)]
    /\ UNCHANGED <<cfgVars, fn, webVars, inv, aggVars, pc, result, bp, rows, storeVars>>

\* The entries the handler "except Exception" of process_batch appends.
ChunkExecutionErrors(c) ==
    {ChunkError(i, <<"Chunk execution error: ", "callback failed">>) : i \in Range(batches[c])}

\* The body of "for future in as_completed(future_to_chunk)" for chunk c.
AggregateChunk(c) ==
    /\ entry = "process_batch"
    /\ pc = "running"
    /\ fut[c].st = "done"
    /\ c \notin taken
    /\ \E cb_raises \in Faults :
          LET a1 == [aggregate EXCEPT
                        !.successful = @ + Cardinality(fut[c].successful),
                        !.duplicates = @ + Cardinality(fut[c].duplicates),
                        !.errors = @ + Cardinality(fut[c].errors),
                        !.orders = @ \cup fut[c].orders,
                        !.error_details = @ \cup fut[c].errors]
          IN  /\ aggregate' = IF cb_raises
                              THEN [a1 EXCEPT !.errors = @ + Len(batches[c]),
                                              !.error_details = @ \cup ChunkExecutionErrors(c)]
                              ELSE a1
              /\ faults' = [faults EXCEPT ![c] = IF cb_raises THEN {"callback"} ELSE {}]
    /\ processed_batches' = processed_batches + 1
    /\ progress' = [processed |-> (processed_batches + 1) * batch_size, total |-> Len(imeis)]
    /\ taken' = taken \cup {c}
    /\ UNCHANGED <<cfgVars, fn, webVars, inv, fut, all_orders, all_errors, checkpoint, pc, result, bp, rows, storeVars>>

\* "return aggregate"; the key 'errors' of the dict is the failed count.
ReturnAggregate ==
    /\ entry = "process_batch"
    /\ pc = "running"
    /\ taken = DOMAIN fut
    /\ pc' = "done"
    /\ result' = [total      |-> aggregate.total,
                  successful |-> aggregate.successful,
                  failed     |-> aggregate.errors,
                  duplicates |-> aggregate.duplicates,
                  orders     |-> aggregate.orders,
                  errors     |-> aggregate.error_details]
    /\ UNCHANGED <<cfgVars, fn, webVars, inv, fut, aggVars, bp, rows, storeVars>>

-----------------------------------------------------------------------------
(* batch_processor.py: BatchProcessor *)

\* process_order(order, attempt): the BatchResult, or raised when
\* place_imei_order raises something other than GSMFusionAPIError.
BatchResultOf(raw, imei, attempt) ==
    LET r    == PlaceImeiOrder(raw, {imei}, FALSE)
        base == [NoBatchResult EXCEPT !.imei = imei, !.attempts = attempt]
    IN  IF r.exc = "api"
        THEN [raised |-> FALSE, res |-> [base EXCEPT !.error = r.msg]]
        ELSE IF r.exc # "none"
        THEN [raised |-> TRUE, res |-> base]
        ELSE IF r.orders # {}
        THEN LET order_data == CHOOSE o \in r.orders : TRUE
             IN  [raised |-> FALSE,
                  res |-> [base EXCEPT !.order_id = order_data.id,
                                       !.status = order_data.status,
                                       !.success = TRUE]]
        ELSE IF r.duplicates # {}
        THEN [raised |-> FALSE, res |-> [base EXCEPT !.error = <<"Duplicate IMEI">>]]
        ELSE [raised |-> FALSE, res |-> [base EXCEPT !.error = <<"Unknown error">>]]

ProcessOrderDefaultAttempts(raw, imei, attempt) == BatchResultOf(raw, imei, 1)

ProcessOrder(raw, imei, attempt) == BatchResultOf(raw, imei, attempt)

\* One iteration of "for attempt in range(1, self.max_retries + 1)".
ProcessWithRetryStep(b, raw) ==
    LET p      == ProcessOrder(raw, imeis[1], b.attempt)
        called == [b EXCEPT !.calls = b.calls + 1]
    IN  IF p.raised
        THEN [called EXCEPT !.st = "raised"]
        ELSE IF p.res.success
        THEN [called EXCEPT !.st = "returned", !.result = p.res]
        ELSE IF p.res.error = <<"Duplicate IMEI">> \/ b.attempt = BpMaxRetries
        THEN [called EXCEPT !.st = "returned", !.last_result = p.res, !.result = p.res]
        ELSE [called EXCEPT !.st = "running", !.last_result = p.res,
                            !.attempt = b.attempt + 1]

ProcessWithRetry ==
    /\ entry = "process_with_retry"
    /\ bp.st \in {"idle", "running"}
    /\ \E raw \in RawResponses({imeis[1]}) :
          bp' = ProcessWithRetryStep(bp, raw)
    /\ UNCHANGED <<cfgVars, fn, webVars, inv, fut, aggVars, pc, result, rows, storeVars>>

-----------------------------------------------------------------------------
(* imei_data_parser.py, as far as the updates of the table need it *)

\* A result text is the sequence of its "Header: Value" lines; "" is a
\* value that is empty after clean_value.  Every non-empty text here
\* stands for one of at least ten characters.
Codes ==
    {<<>>,
     <<<<"Network", "Verizon">>, <<"Model", "iPhone 12">>>>,
     <<<<"Model", "iPhone 12">>, <<"Color", "Red">>>>}

\* header_to_field on the headers above (HEADER_MAPPING, lower-cased).
HeaderMapping ==
    [h \in {"Carrier", "Network", "Model"} |->
        IF h = "Model" THEN "model" ELSE "carrier"]

\* normalize_header
NormalizeHeader(header) ==
    IF header \in DOMAIN HeaderMapping THEN HeaderMapping[header] ELSE None

\* The fields of IMEIData the table has a column for.
ParserFields ==
    {"model", "serial_number", "imei2_number", "meid_number", "applecare_eligible",
     "estimated_purchase_date", "carrier", "next_tether_policy",
     "current_gsma_status", "find_my_iphone", "simlock"}

\* parse: the value of the last line whose header names the field and whose
\* value is not empty; None when there is none.
IMEIDataParse(raw_data) ==
    [field \in ParserFields |->
        LET hits == {i \in 1..Len(raw_data) :
                        NormalizeHeader(raw_data[i][1]) = field /\ raw_data[i][2] # ""}
        IN  IF hits = {} THEN None
            ELSE raw_data[CHOOSE i \in hits : \A j \in hits : j <= i][2]]

\* field_mapping of parse_and_update_order and the parsed_data dict of
\* sync_and_parse_orders: the IMEIData field behind each column.
FieldMapping ==
    [f \in ResultFields |->
        CASE f = "fmi" -> "find_my_iphone"
          [] f = "imei2" -> "imei2_number"
          [] f = "meid" -> "meid_number"
          [] f = "gsma_status" -> "current_gsma_status"
          [] f = "purchase_date" -> "estimated_purchase_date"
          [] f = "applecare" -> "applecare_eligible"
          [] f = "tether_policy" -> "next_tether_policy"
          [] OTHER -> f]

\* The dict handed to update_order_status as result_data; a key the dict
\* lacks reads None.
ParsedData(raw_code) ==
    [f \in ResultFields |-> IMEIDataParse(raw_code)[FieldMapping[f]]]

-----------------------------------------------------------------------------
(* database.py, database_supabase.py: writes of the orders table *)

Statuses == {"Pending", "In Process", "Completed", "Rejected"}

TerminalStatuses == {"Completed", "Rejected"}

OrderIds == 1..MaxOrders

\* Python truthiness of a column value or argument.
Truthy(v) == v \notin {None, ""}

\* The order_data dicts handed to insert_order: a fresh submission, and
\* fetched orders with and without a carrier of their own.
OrderData ==
    {[order_id |-> i, imei |-> i, status |-> p[1], carrier |-> p[2],
      result_code |-> p[3]] :
        i \in OrderIds,
        p \in {<<"Pending", None, <<>> >>,
               <<"Completed", "Verizon", <<<<"Model", "iPhone 12">>, <<"Color", "Red">>>> >>,
               <<"Rejected", None, <<>> >>,
               <<"Completed", None, <<<<"Network", "Verizon">>, <<"Model", "iPhone 12">>>> >>}}

\* _insert_order_sqlite: INSERT OR IGNORE (PostgreSQL: ON CONFLICT (order_id)
\* DO NOTHING); ret is TRUE for a row id, None for an ignored insert.
InsertOrder(table, order_data) ==
    IF UniqueViolation(table, order_data.order_id)
    THEN [rows |-> table, ret |-> None]
    ELSE [rows |-> table \cup
                    {Row(table, order_data.order_id, order_data.imei, order_data.status,
                         order_data.result_code,
                         [NoData EXCEPT !["carrier"] = order_data.carrier])},
          ret |-> "rowid"]

FieldWrittenAlways(result_data, field) == TRUE

\* "if result_data.get(field)": the column is part of the UPDATE.
FieldWritten(result_data, field) == Truthy(result_data[field])

\* The UPDATE both update_order_status build: status always, the other
\* columns when the value handed in is truthy; fields are the columns of
\* result_data the method looks at.
UpdatedRow(r, status, result_code, result_code_display, result_data, fields) ==
    [r EXCEPT !.status = status,
              !.result_code = IF result_code # <<>> THEN result_code ELSE @,
              !.result_code_display = IF result_code_display # <<>>
                                      THEN result_code_display ELSE @,
              !.data = [f \in ResultFields |->
                          IF f \in fields /\ FieldWritten(result_data, f)
                          THEN result_data[f] ELSE @[f]]]

\* IMEIDatabase.update_order_status of database.py.
UpdateOrderStatus(table, order_id, status, result_code, result_code_display, result_data) ==
    IF ~\E r \in table : r.order_id = order_id
    THEN [rows |-> table, ret |-> FALSE]
    ELSE [rows |-> {IF r.order_id = order_id
                    THEN UpdatedRow(r, status, result_code, result_code_display,
                                    result_data, ResultFields)
                    ELSE r : r \in table},
          ret |-> TRUE]

\* IMEIDatabase._update_order_status_sqlite of database_supabase.py.
UpdateOrderStatusSqlite(table, order_id, status, result_code, result_code_display, result_data) ==
    [rows |-> {IF r.order_id = order_id
               THEN UpdatedRow(r, status, result_code, result_code_display,
                               result_data, {"carrier", "model", "simlock", "fmi"})
               ELSE r : r \in table},
     ret |-> \E r \in table : r.order_id = order_id]

-----------------------------------------------------------------------------
(* Threads that insert orders *)

\* db.insert_order(order_data) of the web routes and scripts: one INSERT
\* statement and its commit; it waits while a transaction holds the lock.
InsertOrderCall(w) ==
    /\ entry = "store"
    /\ writers[w].pc = "idle"
    /\ lock = 0
    /\ \E order_data \in OrderData :
          LET r == InsertOrder(rows, order_data)
          IN  /\ rows' = r.rows
              /\ writers' = [writers EXCEPT ![w].last =
                    [order_id |-> order_data.order_id,
                     existed  |-> \E x \in rows : x.order_id = order_data.order_id,
                     changed  |-> r.rows # rows,
                     ret      |-> r.ret]]
    /\ UNCHANGED <<cfgVars, fn, webVars, inv, fut, aggVars, pc, result, bp, lock, cycles>>

\* _store_orders_atomic: "BEGIN TRANSACTION" for the orders of a chunk.
TxnBegin(w) ==
    /\ entry = "store"
    /\ writers[w].pc = "idle"
    /\ \E ids \in SUBSET OrderIds \ {{}} :
          writers' = [writers EXCEPT ![w] =
              [NewWriter EXCEPT !.pc = "txn", !.todo = {Order(i) : i \in ids},
                                !.last = writers[w].last]]
    /\ UNCHANGED <<cfgVars, fn, webVars, inv, fut, aggVars, pc, result, bp, rows, lock, cycles>>

\* One iteration of "for order in orders": the INSERT takes the write lock;
\* an IntegrityError is caught and counted as skipped.
TxnInsert(w) ==
    /\ entry = "store"
    /\ writers[w].pc = "txn"
    /\ writers[w].todo # {}
    /\ lock \in {0, w}
    /\ LET o       == CHOOSE x \in writers[w].todo : \A y \in writers[w].todo : x.id <= y.id
           visible == rows \cup writers[w].mine
           existed == \E x \in visible : x.order_id = o.id
           dup     == UniqueViolation(visible, o.id)
       IN  writers' = [writers EXCEPT
              ![w].todo = @ \ {o},
              ![w].mine = IF dup THEN @
                          ELSE @ \cup {Row(visible, o.id, o.imei, o.status, <<>>, NoData)},
              ![w].stored = IF dup THEN @ ELSE @ + 1,
              ![w].skipped = IF dup THEN @ + 1 ELSE @,
              ![w].last = [order_id |-> o.id, existed |-> existed,
                           changed |-> ~dup,
                           ret |-> IF dup THEN "skipped" ELSE "stored"]]
    /\ lock' = w
    /\ UNCHANGED <<cfgVars, fn, webVars, inv, fut, aggVars, pc, result, bp, rows, cycles>>

\* conn.commit() and "return stored, skipped".
TxnCommit(w) ==
    /\ entry = "store"
    /\ writers[w].pc = "txn"
    /\ writers[w].todo = {}
    /\ rows' = rows \cup writers[w].mine
    /\ lock' = IF lock = w THEN 0 ELSE lock
    /\ writers' = [writers EXCEPT ![w] = [NewWriter EXCEPT !.last = writers[w].last]]
    /\ UNCHANGED <<cfgVars, fn, webVars, inv, fut, aggVars, pc, result, bp, cycles>>

\* "except Exception: conn.rollback(); raise" on a failure of the database.
TxnRollback(w) ==
    /\ entry = "store"
    /\ writers[w].pc = "txn"
    /\ lock' = IF lock = w THEN 0 ELSE lock
    /\ writers' = [writers EXCEPT ![w] = [NewWriter EXCEPT !.last = writers[w].last]]
    /\ UNCHANGED <<cfgVars, fn, webVars, inv, fut, aggVars, pc, result, bp, rows, cycles>>

-----------------------------------------------------------------------------
(* web_app.py, auto_parse_orders.py: cycles that update stored orders *)

\* The attributes of the IMEIOrder dataclass get_imei_orders builds.
IMEIOrderFields == {"id", "imei", "package", "status", "code", "requested_at"}

\* The attributes of an order the UPDATE of sync_orders reads for its
\* parameter tuple.
SyncOrdersReads ==
    {"status", "carrier", "model", "simlock", "fmi", "result_code",
     "result_code_display", "id"}

\* The attributes sync_and_parse_orders reads for its update call, and the
\* keyword arguments of the call.
SyncAndParseReads == {"id", "status", "code", "result_code_display", "package"}

SyncAndParseKwargs ==
    {"order_id", "status", "code", "code_display", "service_name", "result_data"}

\* The parameters of IMEIDatabase.update_order_status.
UpdateOrderStatusParams ==
    {"order_id", "status", "result_code", "result_code_display", "result_data"}

\* SELECT order_id FROM orders WHERE status IN ('Pending', 'In Process', ...)
PendingOrderIds(table) ==
    {r.order_id : r \in {x \in table : x.status \in {"Pending", "In Process"}}}

\* The orders get_imei_orders can answer for the ids asked.
PolledOrders(ids) ==
    {[id |-> i, status |-> st, code |-> code] : i \in ids, st \in Statuses, code \in Codes}

\* The body of "for order in orders" of sync_orders: building the parameter
\* tuple reads attributes the order lacks, the AttributeError is caught and
\* logged, and the UPDATE is not executed.
SyncOrdersRow(r, order) ==
    IF SyncOrdersReads \subseteq IMEIOrderFields
    THEN [r EXCEPT !.status = order.status,
                   !.result_code = <<>>,
                   !.result_code_display = <<>>,
                   !.data = [f \in ResultFields |->
                               IF f \in {"carrier", "model", "simlock", "fmi"}
                               THEN "" ELSE @[f]]]
    ELSE r

\* The update call of sync_and_parse_orders for one order.
SyncAndParseRow(r, order) ==
    IF /\ SyncAndParseReads \subseteq IMEIOrderFields
       /\ SyncAndParseKwargs \subseteq UpdateOrderStatusParams
    THEN UpdatedRow(r, order.status, <<>>, <<>>,
                    IF order.code # <<>> /\ order.status = "Completed"
                    THEN ParsedData(order.code) ELSE NoData,
                    ResultFields)
    ELSE r

\* "status=order['status']  # Keep existing status" of parse_and_update_order.
AutoParseStatusPending(order) == "Pending"

AutoParseStatus(order) == order.status

\* The start of a sync cycle: the select of the pending orders; with none
\* the route returns at once.
SyncSelect(k) ==
    /\ entry = "store"
    /\ k \in {"sync_orders", "sync_and_parse_orders"}
    /\ cycles[k].pc = "idle"
    /\ PendingOrderIds(rows) # {}
    /\ cycles' = [cycles EXCEPT ![k] =
          [NewCycle EXCEPT !.pc = "selected", !.ids = PendingOrderIds(rows)]]
    /\ UNCHANGED <<cfgVars, fn, webVars, inv, fut, aggVars, pc, result, bp, rows, lock, writers>>

\* One iteration of "for order in orders" of a sync cycle, for the next
\* order id asked: the poll answers it with an order, or has none for it.
SyncUpdate(k) ==
    /\ entry = "store"
    /\ k \in {"sync_orders", "sync_and_parse_orders"}
    /\ cycles[k].pc = "selected"
    /\ lock = 0
    /\ LET id   == CHOOSE i \in cycles[k].ids : \A j \in cycles[k].ids : i <= j
           rest == cycles[k].ids \ {id}
       IN  \E order \in PolledOrders({id}) \cup {NoOrder} :
             LET written(r) ==
                    IF order = NoOrder \/ r.order_id # id THEN r
                    ELSE IF k = "sync_orders" THEN SyncOrdersRow(r, order)
                         ELSE SyncAndParseRow(r, order)
             IN  /\ rows' = {written(r) : r \in rows}
                 /\ cycles' = [cycles EXCEPT ![k] =
                       IF rest = {} THEN NewCycle
                       ELSE [@ EXCEPT !.ids = rest,
                                      !.updated = IF rows' # rows THEN @ + 1 ELSE @]]
    /\ UNCHANGED <<cfgVars, fn, webVars, inv, fut, aggVars, pc, result, bp, lock, writers>>

\* parse_all_orders: orders = db.get_orders_by_status('Completed').
AutoParseSelect ==
    /\ entry = "store"
    /\ cycles["parse_all_orders"].pc = "idle"
    /\ \E r \in rows : r.status = "Completed"
    /\ cycles' = [cycles EXCEPT !["parse_all_orders"] =
          [NewCycle EXCEPT
              !.pc = "selected",
              !.orders = {[order_id |-> r.order_id, copy |-> r.copy, status |-> r.status,
                           result_code |-> r.result_code,
                           result_code_display |-> r.result_code_display] :
                          r \in {x \in rows : x.status = "Completed"}}]]
    /\ UNCHANGED <<cfgVars, fn, webVars, inv, fut, aggVars, pc, result, bp, rows, lock, writers>>

\* parse_and_update_order for the next order of the list.
AutoParseUpdate ==
    /\ entry = "store"
    /\ cycles["parse_all_orders"].pc = "selected"
    /\ lock = 0
    /\ LET c        == cycles["parse_all_orders"]
           order    == CHOOSE o \in c.orders : \A x \in c.orders :
                          <<o.order_id, o.copy>> = <<x.order_id, x.copy>>
                          \/ o.order_id < x.order_id
                          \/ (o.order_id = x.order_id /\ o.copy < x.copy)
           raw_code == IF order.result_code # <<>> THEN order.result_code
                       ELSE order.result_code_display
           update_data == ParsedData(raw_code)
           skip     == raw_code = <<>> \/ \A f \in ResultFields : ~Truthy(update_data[f])
           r        == UpdateOrderStatusSqlite(rows, order.order_id, AutoParseStatus(order),
                                               <<>>, <<>>, update_data)
           rest     == c.orders \ {order}
       IN  /\ rows' = IF skip THEN rows ELSE r.rows
           /\ cycles' = [cycles EXCEPT !["parse_all_orders"] =
                 [c EXCEPT !.pc = IF rest = {} THEN "idle" ELSE "selected",
                           !.orders = rest,
                           !.updated = IF ~skip /\ r.ret THEN @ + 1 ELSE @]]
    /\ UNCHANGED <<cfgVars, fn, webVars, inv, fut, aggVars, pc, result, bp, lock, writers>>

-----------------------------------------------------------------------------
(* web_app.py: the routes /submit and /submit-stream *)

Imeis == 1..MaxImeis

\* db.get_orders_by_imei(imei)
GetOrdersByImei(table, imei) == {r \in table : r.imei = imei}

\* The service numbers the orders it accepts: the accepted identifiers get
\* the order ids from next on, in ascending order of the identifier.
IssuedOrders(orders, next) ==
    {[o EXCEPT !.id = next + Cardinality({x \in orders : x.imei < o.imei})] : o \in orders}

\* The duplicate check of /submit-stream ("if db and not force_recheck"):
\* existing_count; the check only reports the count.
ExistingCount(table, ids, force_recheck) ==
    IF force_recheck THEN 0
    ELSE Cardinality({i \in ids : GetOrdersByImei(table, i) # {}})

\* The identifiers a route hands to place_imei_order: all the validated
\* ones, whatever the duplicate check found.
Submitted(table, ids, force_recheck) == ids

\* The head of a route: the form is parsed and validated, and
\* /submit-stream looks the identifiers up in the table.
WebValidate(r) ==
    /\ entry = "web"
    /\ requests[r].pc = "idle"
    /\ \E route \in {"submit", "submit_stream"}, ids \in SUBSET Imeis \ {{}},
          force_recheck \in BOOLEAN :
          requests' = [requests EXCEPT ![r] =
              [NewRequest EXCEPT
                  !.pc = "submitting", !.route = route, !.imeis = ids,
                  !.force_recheck = force_recheck,
                  !.existing_count =
                      IF route = "submit_stream"
                      THEN ExistingCount(rows, ids, force_recheck) ELSE 0]]
    /\ UNCHANGED <<cfgVars, fn, fut, aggVars, pc, result, bp, rows, storeVars, next_id, inv>>

\* client.place_imei_order(imeis, service_id, force_recheck=force_recheck):
\* an exception ends the request; otherwise the orders are kept for storing.
WebCall(r) ==
    /\ entry = "web"
    /\ requests[r].pc = "submitting"
    /\ LET q   == requests[r]
           ids == Submitted(rows, q.imeis, q.force_recheck)
       IN  \E raw \in RawResponses(ids) :
             LET res    == PlaceImeiOrder(raw, ids, q.force_recheck)
                 orders == IssuedOrders(res.orders, next_id)
                 sent   == [q EXCEPT !.called = ids # {},
                                     !.known = {i \in ids : GetOrdersByImei(rows, i) # {}}]
             IN  /\ next_id + Cardinality(orders) <= MaxOrders + 1
                 /\ next_id' = next_id + Cardinality(orders)
                 /\ requests' = [requests EXCEPT ![r] =
                       IF res.exc # "none" \/ orders = {}
                       THEN [sent EXCEPT !.pc = "idle"]
                       ELSE [sent EXCEPT !.pc = "saving", !.orders = orders]]
    /\ UNCHANGED <<cfgVars, fn, fut, aggVars, pc, result, bp, rows, storeVars, inv>>

\* "for order in result['orders']: db.insert_order({...})"
RECURSIVE InsertOrders(_, _)
InsertOrders(table, orders) ==
    IF orders = {} THEN table
    ELSE LET o == CHOOSE x \in orders : \A y \in orders : x.id <= y.id
         IN  InsertOrders(
                InsertOrder(table, [order_id |-> o.id, imei |-> o.imei, status |-> o.status,
                                    carrier |-> None, result_code |-> <<>>]).rows,
                orders \ {o})

WebSave(r) ==
    /\ entry = "web"
    /\ requests[r].pc = "saving"
    /\ rows' = InsertOrders(rows, requests[r].orders)
    /\ requests' = [requests EXCEPT ![r].pc = "idle"]
    /\ UNCHANGED <<cfgVars, fn, fut, aggVars, pc, result, bp, storeVars, next_id, inv>>

-----------------------------------------------------------------------------
(* web_app.py, manual_sync.py: invocations of a reconciliation cycle *)

SyncKinds == {"sync_orders", "sync_and_parse_orders", "manual_sync.py"}

\* The tables the inserts of OrderData can have left.
RECURSIVE InsertAll(_, _)
InsertAll(table, S) ==
    IF S = {} THEN table
    ELSE LET d == CHOOSE x \in S : TRUE
         IN  InsertAll(InsertOrder(table, d).rows, S \ {d})

StoredTables ==
    {InsertAll({}, S) :
        S \in {T \in SUBSET OrderData : \A a, b \in T : a.order_id = b.order_id => a = b}}

SelectedPcAlwaysPolls(ids) == "polling"

\* "if not pending_orders: ... return": with no pending order the cycle
\* ends before a client is made.
SelectedPc(ids) == IF ids = {} THEN "returned" ELSE "polling"

\* Whether the update of one polled order raises: the statement of
\* sync_orders and the call of sync_and_parse_orders read attributes the
\* IMEIOrder lacks (AttributeError).
SyncUpdateRaises(kind) ==
    IF kind = "sync_orders"
    THEN ~(SyncOrdersReads \subseteq IMEIOrderFields)
    ELSE ~(SyncAndParseReads \subseteq IMEIOrderFields
           /\ SyncAndParseKwargs \subseteq UpdateOrderStatusParams)

ItemAborts(iv, order, parse_fails, raised) ==
    IF parse_fails \/ raised
    THEN [iv EXCEPT !.orders = {}, !.processed = @ + 1, !.errors = @ + 1,
                    !.last = order, !.pc = "raised"]
    ELSE [iv EXCEPT !.orders = @ \ {order.id}, !.processed = @ + 1, !.last = order,
                    !.pc = IF iv.orders = {order.id} THEN "returned" ELSE "updating"]

\* One iteration of "for order in orders" with its handlers "except
\* Exception as parse_error" and "except Exception as e": the failure is
\* counted or logged and the loop goes on.
ItemDone(iv, order, parse_fails, raised) ==
    [iv EXCEPT !.orders = @ \ {order.id},
               !.processed = @ + 1,
               !.parse_failures = IF parse_fails THEN @ + 1 ELSE @,
               !.errors = IF raised THEN @ + 1 ELSE @,
               !.last = order,
               !.pc = IF iv.orders = {order.id} THEN "returned" ELSE "updating"]

\* The head of a cycle.  manual_sync.py calls db.search_orders_by_status,
\* which IMEIDatabase does not have: the script ends with AttributeError.
SyncStart(i) ==
    /\ entry = "sync"
    /\ inv[i].pc \in {"idle", "returned", "raised"}
    /\ \E kind \in SyncKinds :
          inv' = [inv EXCEPT ![i] =
              IF kind = "manual_sync.py"
              THEN [NewInvocation EXCEPT !.kind = kind, !.pc = "raised"]
              ELSE [NewInvocation EXCEPT !.kind = kind,
                                         !.ids = PendingOrderIds(rows),
                                         !.pc = SelectedPc(PendingOrderIds(rows))]]
    /\ UNCHANGED <<cfgVars, fn, fut, aggVars, pc, result, bp, rows, storeVars, webVars>>

\* orders = client.get_imei_orders(order_ids_str): the call raises ("API
\* sync failed", the cycle returns), or answers for some of the ids.
SyncPoll(i) ==
    /\ entry = "sync"
    /\ inv[i].pc = "polling"
    /\ \E api_fails \in BOOLEAN, answered \in SUBSET inv[i].ids :
          inv' = [inv EXCEPT ![i] =
              IF api_fails
              THEN [@ EXCEPT !.calls = @ + 1, !.errors = @ + 1, !.pc = "returned"]
              ELSE [@ EXCEPT !.calls = @ + 1, !.orders = answered,
                             !.polled = Cardinality(answered),
                             !.pc = IF answered = {} THEN "returned" ELSE "updating"]]
    /\ UNCHANGED <<cfgVars, fn, fut, aggVars, pc, result, bp, rows, storeVars, webVars>>

\* The loop body for the next polled order.
SyncItem(i) ==
    /\ entry = "sync"
    /\ inv[i].pc = "updating"
    /\ LET id == CHOOSE x \in inv[i].orders : \A y \in inv[i].orders : x <= y
       IN  \E order \in PolledOrders({id}), parse_fails \in BOOLEAN :
             LET raised == SyncUpdateRaises(inv[i].kind)
                 written(r) ==
                    IF r.order_id # id THEN r
                    ELSE IF inv[i].kind = "sync_orders" THEN SyncOrdersRow(r, order)
                         ELSE SyncAndParseRow(r, order)
             IN  /\ parse_fails => /\ inv[i].kind = "sync_and_parse_orders"
                                    /\ order.code # <<>>
                                    /\ order.status = "Completed"
                 /\ rows' = {written(r) : r \in rows}
                 /\ inv' = [inv EXCEPT ![i] =
                                ItemDone(inv[i], order, parse_fails, raised)]
    /\ UNCHANGED <<cfgVars, fn, fut, aggVars, pc, result, bp, storeVars, webVars>>

-----------------------------------------------------------------------------
(* imei_data_parser.py: parse and validate on the text itself *)

\* A text is a sequence of tokens: a label (one of the header texts of
\* HEADER_MAPPING, v its lower-case form, c its letter case), a word of
\* letters and digits, a word with another character ("sym"), a colon, a run
\* of blanks ("ws"), a newline ("nl") or an HTML tag ("tag").
Tok(k, v, c) == [k |-> k, v |-> v, c |-> c]

COLON == Tok("colon", ":", "")

WS == Tok("ws", " ", "")

NL == Tok("nl", "nl", "")

BR == Tok("tag", "<br/>", "")

Word(w) == Tok("word", w, "")

Sym(w) == Tok("sym", w, "")

LabelTok(l, c) == Tok("label", l, c)

\* header_to_field, for the headers the texts here use.
HeaderToField ==
    [h \in {"model", "imei number", "imei", "carrier", "network", "simlock"} |->
        CASE h = "model" -> "model"
          [] h \in {"imei number", "imei"} -> "imei_number"
          [] h \in {"carrier", "network"} -> "carrier"
          [] OTHER -> "simlock"]

\* expected_headers of _preprocess_single_line, lower-cased (the
\* substitution ignores case).
ExpectedHeaders == {"model", "imei number", "carrier", "simlock"}

\* The fields of IMEIData those headers stand for.
TextFields == {"model", "imei_number", "carrier", "simlock"}

\* The class [A-Za-z0-9\s] of the header group.
InHeaderClass(t) == t.k \in {"label", "word", "ws", "nl"}

\* \s
IsSpace(t) == t.k \in {"ws", "nl"}

\* ^ under re.MULTILINE
LineStart(text, p) == p = 1 \/ text[p - 1].k = "nl"

NoMatch == [end |-> 0, header |-> <<>>, value |-> <<>>]

\* self.pattern matched at position p: the header is what lies before the
\* first colon, "\s*" skips blanks and newlines, and the lazy value ends at
\* the end of its line; when only blanks follow the colon the value is the
\* last of them.
MatchAt(text, p) ==
    LET n == Len(text)
        colons == {q \in (p + 1)..n :
                      /\ text[q].k = "colon"
                      /\ \A j \in p..(q - 1) : InHeaderClass(text[j])}
    IN  IF colons = {} THEN NoMatch
        ELSE LET q == CHOOSE x \in colons : TRUE
                 solid == {j \in (q + 1)..n : ~IsSpace(text[j])}
             IN  IF q = n THEN NoMatch
                 ELSE IF solid = {}
                 THEN [end |-> n, header |-> SubSeq(text, p, q - 1),
                       value |-> <<text[n]>>]
                 ELSE LET v0 == CHOOSE j \in solid : \A i \in solid : j <= i
                          ends == {e \in v0..n : e = n \/ text[e + 1].k = "nl"}
                          e0 == CHOOSE e \in ends : \A i \in ends : e <= i
                      IN  [end |-> e0, header |-> SubSeq(text, p, q - 1),
                           value |-> SubSeq(text, v0, e0)]

\* self.pattern.findall from position pos on.
RECURSIVE FindAll(_, _)
FindAll(text, pos) ==
    LET starts == {p \in pos..Len(text) :
                      LineStart(text, p) /\ MatchAt(text, p) # NoMatch}
    IN  IF starts = {} THEN <<>>
        ELSE LET p0 == CHOOSE p \in starts : \A i \in starts : p <= i
                 m == MatchAt(text, p0)
             IN  <<m>> \o FindAll(text, m.end + 1)

\* str.strip
RECURSIVE Strip(_)
Strip(s) ==
    IF s = <<>> THEN s
    ELSE IF IsSpace(Head(s)) THEN Strip(Tail(s))
    ELSE IF IsSpace(s[Len(s)]) THEN Strip(SubSeq(s, 1, Len(s) - 1))
    ELSE s

NormalizeTextHeaderCaseSensitive(header) ==
    LET h == Strip(header)
    IN  IF Len(h) = 1 /\ h[1].k = "label" /\ h[1].c = "title"
           /\ h[1].v \in DOMAIN HeaderToField
        THEN HeaderToField[h[1].v]
        ELSE None

\* normalize_header on the header group: strip, lower, header_to_field.get
NormalizeTextHeader(header) ==
    LET h == Strip(header)
    IN  IF Len(h) = 1 /\ h[1].k = "label" /\ h[1].v \in DOMAIN HeaderToField
        THEN HeaderToField[h[1].v]
        ELSE None

\* ' '.join(value.split()): every run of blanks and newlines inside becomes
\* one blank.
RECURSIVE JoinSplit(_)
JoinSplit(s) ==
    IF s = <<>> THEN s
    ELSE IF IsSpace(Head(s))
    THEN IF Len(s) > 1 /\ IsSpace(s[2]) THEN JoinSplit(Tail(s))
         ELSE <<WS>> \o JoinSplit(Tail(s))
    ELSE <<Head(s)>> \o JoinSplit(Tail(s))

\* clean_value
CleanValue(value) == JoinSplit(Strip(value))

\* _preprocess_single_line: the blanks before "<expected header>:" become a
\* newline, except at the start of the text.
PreprocessSingleLine(data) ==
    [i \in 1..Len(data) |->
        IF /\ i > 1
           /\ IsSpace(data[i])
           /\ i + 2 <= Len(data)
           /\ data[i + 1].k = "label"
           /\ data[i + 1].v \in ExpectedHeaders
           /\ data[i + 2].k = "colon"
        THEN NL ELSE data[i]]

\* IMEIData(): no field is set; <<>> where the dataclass holds None.
NoFields == [f \in TextFields |-> <<>>]

\* parsed_data[field_name] = clean_val
Store(parsed_data, field_name, clean_val) ==
    [parsed_data EXCEPT ![field_name] = clean_val]

\* The loop "for header, value in matches" of parse.
RECURSIVE ParseMatches(_, _)
ParseMatches(matches, parsed_data) ==
    IF matches = <<>> THEN parsed_data
    ELSE LET field_name == NormalizeTextHeader(Head(matches).header)
             clean_val == CleanValue(Head(matches).value)
         IN  ParseMatches(Tail(matches),
                          IF field_name # None /\ clean_val # <<>>
                          THEN Store(parsed_data, field_name, clean_val)
                          ELSE parsed_data)

\* parse(raw_data); long: len(raw_data) > 100.
Parse(raw_data, long) ==
    IF raw_data = <<>> THEN NoFields
    ELSE LET data == IF (\A i \in 1..Len(raw_data) : raw_data[i].k # "nl") /\ long
                     THEN PreprocessSingleLine(raw_data)
                     ELSE raw_data
         IN  ParseMatches(FindAll(data, 1), NoFields)

RequiredFieldsModelOnly == <<"model">>

\* required_fields of validate
RequiredFields == <<"imei_number", "model">>

\* validate(raw_data): (len(missing) == 0, missing)
Validate(raw_data, long) ==
    LET parsed_dict == Parse(raw_data, long)
        Missing(field) == parsed_dict[field] = <<>>
        missing == SelectSeq(RequiredFields, Missing)
    IN  [valid |-> missing = <<>>, missing |-> missing]

\* The texts the calls are made on: "Label: Value" pairs, each label in one
\* of its letter cases and with blanks around the label and the value as
\* its pad says, joined by newlines or by one blank.
Cases == {"title", "upper"}

Pads ==
    {[bl |-> FALSE, al |-> FALSE, bv |-> TRUE, av |-> FALSE],
     [bl |-> FALSE, al |-> FALSE, bv |-> FALSE, av |-> FALSE],
     [bl |-> TRUE, al |-> TRUE, bv |-> TRUE, av |-> TRUE]}

Values ==
    {<<Word("Unlocked")>>,
     <<Word("iPhone"), WS, Word("12")>>,
     <<Word("10"), COLON, Word("30")>>,
     <<Word("No"), WS, LabelTok("carrier", "title")>>}

PairSpecs == [label : DOMAIN HeaderToField, case : Cases, pad : Pads, value : Values]

Blank(b) == IF b THEN <<WS>> ELSE <<>>

PairText(p) ==
    Blank(p.pad.bl) \o <<LabelTok(p.label, p.case)>> \o Blank(p.pad.al) \o <<COLON>>
        \o Blank(p.pad.bv) \o p.value \o Blank(p.pad.av)

RECURSIVE JoinPairs(_, _)
JoinPairs(ps, sep) ==
    IF ps = <<>> THEN <<>>
    ELSE IF Len(ps) = 1 THEN PairText(ps[1])
    ELSE PairText(ps[1]) \o <<sep>> \o JoinPairs(Tail(ps), sep)

\* "Carrier: T-Mobile<br/>Model: iPhone 12<br/>Simlock: Unlocked" (59
\* characters)
HtmlPairs ==
    <<[label |-> "carrier", case |-> "title", pad |-> CHOOSE x \in Pads : x.bv /\ ~x.bl,
       value |-> <<Sym("T-Mobile")>>],
      [label |-> "model", case |-> "title", pad |-> CHOOSE x \in Pads : x.bv /\ ~x.bl,
       value |-> <<Word("iPhone"), WS, Word("12")>>],
      [label |-> "simlock", case |-> "title", pad |-> CHOOSE x \in Pads : x.bv /\ ~x.bl,
       value |-> <<Word("Unlocked")>>]>>

ParseArgs ==
    {a \in {[pairs |-> ps, sep |-> sep, long |-> long, text |-> JoinPairs(ps, sep)] :
                ps \in UNION {[1..n -> PairSpecs] : n \in 0..MaxPairs},
                sep \in {NL, WS},
                long \in BOOLEAN} :
        a.long => a.pairs # <<>>}
    \cup {[pairs |-> HtmlPairs, sep |-> BR, long |-> FALSE,
           text |-> JoinPairs(HtmlPairs, BR)]}

\* parser.parse(raw_data)
ParseCall ==
    /\ entry = "parser"
    /\ ~fn.done
    /\ fn' = [fn EXCEPT !.op = "parse",
                        !.out = Parse(fn.args.text, fn.args.long),
                        !.done = TRUE]
    /\ UNCHANGED runVars

\* parser.validate(raw_data)
ValidateCall ==
    /\ entry = "parser"
    /\ ~fn.done
    /\ fn' = [fn EXCEPT !.op = "validate",
                        !.out = Validate(fn.args.text, fn.args.long),
                        !.done = TRUE]
    /\ UNCHANGED runVars

-----------------------------------------------------------------------------
(* Functions called on their own *)

\* The answers by which the service says, other than by <imeiduplicates>,
\* that the identifier already exists: an <error> element, or a document
\* that is nothing but the text.
ExistsResponses ==
    {[kind |-> k, msg |-> "IMEI already exists", acc |-> {}, dup |-> {}] :
        k \in {"error", "garbage"}}

\* client.place_imei_order(imei, network_id, force_recheck)
PlaceImeiOrderCall ==
    /\ entry = "client"
    /\ ~fn.done
    /\ fn' = [fn EXCEPT !.op = "place_imei_order",
                        !.out = PlaceImeiOrder(fn.args.raw, fn.args.imei,
                                               fn.args.force_recheck),
                        !.done = TRUE]
    /\ UNCHANGED runVars

\* The identifier lists of up to MaxListLen entries; an identifier may
\* occur more than once.
Lists == UNION {[1..n -> Imeis] : n \in 0..MaxListLen}

\* self._chunk_imeis(imeis) with self.batch_size = size
ChunkImeisCall ==
    /\ entry = "chunk"
    /\ \E list \in Lists, size \in 1..MaxChunkSize :
          fn' = [op |-> "_chunk_imeis", args |-> <<list, size>>,
                 out |-> ChunkImeis(list, size), done |-> TRUE]
    /\ UNCHANGED runVars

\* self._chunk_list(items, chunk_size)
ChunkListCall ==
    /\ entry = "chunk"
    /\ \E items \in Lists, chunk_size \in 1..MaxChunkSize :
          fn' = [op |-> "_chunk_list", args |-> <<items, chunk_size>>,
                 out |-> ChunkList(items, chunk_size), done |-> TRUE]
    /\ UNCHANGED runVars

-----------------------------------------------------------------------------
(* Specifications *)

Next ==
    \/ \E c \in DOMAIN fut : StartWorker(c)
    \/ \E c \in DOMAIN fut : SubmitAttempt(c)
    \/ \E c \in DOMAIN fut : ProcessResult(c)
    \/ Return
    \/ \E c \in DOMAIN fut : SubmitChunk(c)
    \/ \E c \in DOMAIN fut : AggregateChunk(c)
    \/ ReturnAggregate
    \/ ProcessWithRetry

Spec == Init /\ [][Next]_vars

\* The steps of a run of submit_batch.
NextSubmit ==
    \/ \E c \in DOMAIN fut : StartWorker(c)
    \/ \E c \in DOMAIN fut : SubmitAttempt(c)
    \/ \E c \in DOMAIN fut : ProcessResult(c)
    \/ Return

\* The scenario of ten identifiers, one per chunk, three workers.
SpecScenario == InitScenario /\ [][NextSubmit]_vars

\* The orders table under the threads and processes that write it: inserts
\* of single orders, the transactions of _store_orders_atomic, the sync
\* cycles of the web application and the auto-parse script.
InitStore == InitRun("store", <<>>, 1, 1, FALSE)

NextStore ==
    \/ \E w \in DOMAIN writers : InsertOrderCall(w)
    \/ \E w \in DOMAIN writers : TxnBegin(w)
    \/ \E w \in DOMAIN writers : TxnInsert(w)
    \/ \E w \in DOMAIN writers : TxnCommit(w)
    \/ \E w \in DOMAIN writers : TxnRollback(w)
    \/ \E k \in {"sync_orders", "sync_and_parse_orders"} : SyncSelect(k)
    \/ \E k \in {"sync_orders", "sync_and_parse_orders"} : SyncUpdate(k)
    \/ AutoParseSelect
    \/ AutoParseUpdate

SpecStore == InitStore /\ [][NextStore]_vars

\* The submission routes of the web application, the service and the table.
InitWeb == InitRun("web", <<>>, 1, 1, FALSE)

NextWeb ==
    \/ \E r \in DOMAIN requests : WebValidate(r)
    \/ \E r \in DOMAIN requests : WebCall(r)
    \/ \E r \in DOMAIN requests : WebSave(r)

SpecWeb == InitWeb /\ [][NextWeb]_vars

\* Invocations of the reconciliation cycles over a table the inserts left.
InitSync == \E table \in StoredTables : InitTable("sync", <<>>, 1, 1, FALSE, table)

NextSync ==
    \/ \E i \in DOMAIN inv : SyncStart(i)
    \/ \E i \in DOMAIN inv : SyncPoll(i)
    \/ \E i \in DOMAIN inv : SyncItem(i)

SpecSync == InitSync /\ [][NextSync]_vars

\* Calls of the two chunkers.
InitChunk == InitRun("chunk", <<>>, 1, 1, FALSE)

NextChunk ==
    \/ ChunkImeisCall
    \/ ChunkListCall

SpecChunk == InitChunk /\ [][NextChunk]_vars

\* One call of parse or of validate on a text.
InitParser ==
    \E a \in ParseArgs :
       InitCall("parser", <<>>, 1, 1, FALSE, {},
                [op |-> None, args |-> a, out |-> <<>>, done |-> FALSE])

NextParser ==
    \/ ParseCall
    \/ ValidateCall

SpecParser == InitParser /\ [][NextParser]_vars

\* One call of place_imei_order.
InitClient ==
    \E ids \in SUBSET Imeis \ {{}}, force_recheck \in BOOLEAN :
       \E raw \in RawResponses(ids) \cup ExistsResponses :
          InitCall("client", <<>>, 1, 1, FALSE, {},
                   [op |-> None,
                    args |-> [imei |-> ids, force_recheck |-> force_recheck, raw |-> raw],
                    out |-> <<>>, done |-> FALSE])

NextClient == PlaceImeiOrderCall

SpecClient == InitClient /\ [][NextClient]_vars

\* Every thread that can take a step eventually takes one: a submit call
\* returns or fails, and the aggregation loop handles a finished future.
FairSpec == Spec /\ WF_vars(Next)

-----------------------------------------------------------------------------
(* Properties *)

ChunkIds(c) == Range(batches[c])

\* The worker of chunk c has returned and its last submit call failed.
Exhausted(c) ==
    fut[c].st = "done" /\ fut[c].last \in {"timeout", "error", "garbage"}

RECURSIVE SumOver(_, _)
SumOver(f, S) ==
    IF S = {} THEN 0
    ELSE LET x == CHOOSE y \in S : TRUE IN f[x] + SumOver(f, S \ {x})

\* C1: when submit_batch or process_batch has returned, successful + failed
\* + duplicates equals the number of identifiers submitted, whatever the
\* service answered to each chunk (no storage or callback failure needed).
AggregatorCompleteness ==
    (pc = "done" /\ \A c \in DOMAIN fut : faults[c] = {}) =>
        result.successful + result.failed + result.duplicates = Len(imeis)

\* C2: a chunk of submit_batch whose every submit call failed has had
\* exactly max_retries calls in this and every later state, has no accepted
\* order, and has an error record listing its identifiers, in the worker's
\* result, in the aggregate once handled and in the returned result.
RetryExhaustion ==
    entry = "submit_batch" =>
        \A c \in DOMAIN fut : Exhausted(c) =>
            /\ fut[c].calls = MaxRetries
            /\ fut[c].orders = {}
            /\ \E e \in fut[c].errors : e.imeis = ChunkIds(c)
            /\ c \in taken =>
                  /\ \E e \in all_errors : e.imeis = ChunkIds(c)
                  /\ \A o \in all_orders : o.imei \notin ChunkIds(c)
            /\ pc = "done" =>
                  /\ \E e \in result.errors : e.imeis = ChunkIds(c)
                  /\ \A o \in result.orders : o.imei \notin ChunkIds(c)
                  /\ result.failed >= 1

RetryExhaustionReached ==
    /\ entry = "submit_batch"
    /\ pc = "done"
    /\ \E c \in DOMAIN fut :
          /\ Exhausted(c)
          /\ fut[c].calls = MaxRetries
          /\ Cardinality(ChunkIds(c)) = MaxBatchSize

MixedScenario ==
    pc = "done" =>
        /\ result.total = ScenarioImeis
        /\ result.successful = ScenarioImeis - 1
        /\ result.failed = 1
        /\ result.duplicates = 0
        /\ \A e \in result.errors :
              e.imeis = {ScenarioRejected} /\ e.error = <<"Invalid IMEI">>

MixedScenarioOutcome ==
    /\ pc = "done"
    /\ result.total = ScenarioImeis
    /\ result.successful = ScenarioImeis - 1
    /\ result.failed = 1
    /\ result.duplicates = 0
    /\ fut[ScenarioFlaky].calls = ScenarioTransientFailures + 1
    /\ fut[ScenarioRejected].calls = MaxRetries
    /\ \A e \in result.errors :
          /\ e.imeis = {ScenarioRejected}
          /\ e.error = <<"Max retries exhausted: ", "API Error: ", "Invalid IMEI">>

\* C5: once the service has answered a chunk's submit call with an <error>
\* document, submit_batch makes no further submit call for that chunk, and
\* the finished worker carries the rejection in an error record.
RejectionNotRetried ==
    entry = "submit_batch" =>
        \A c \in DOMAIN fut : fut[c].rejected_at > 0 =>
            /\ fut[c].calls = fut[c].rejected_at
            /\ fut[c].st = "done" => \E e \in fut[c].errors : e.imeis = ChunkIds(c)

RejectionRetried ==
    /\ entry = "submit_batch"
    /\ \E c \in DOMAIN fut :
          /\ fut[c].rejected_at = 1
          /\ fut[c].calls = MaxRetries
          /\ fut[c].st = "done"

\* The error records the handling of chunk c added for the exceptions it
\* met (storing the orders, the per-chunk result processing).
FaultRecords(c) ==
    (IF "store" \in faults[c]
     THEN {StoreFailureRecord(GenerateBatchId(batches[c]), fut[c].orders)} ELSE {})
    \cup (IF "callback" \in faults[c] THEN {ResultProcessingError(c)} ELSE {})

FaultDetails(c) ==
    IF "callback" \in faults[c] THEN ChunkExecutionErrors(c) ELSE {}

BatchAlwaysCompletes ==
    /\ [](entry = "submit_batch" => \A c \in DOMAIN fut : fut[c].calls <= MaxRetries)
    /\ (entry = "submit_batch") ~>
          (/\ pc = "done"
           /\ result.total = Len(imeis)
           /\ result.successful = Cardinality(all_orders)
           /\ result.failed = Cardinality(all_errors)
           /\ result.duplicates >= 0
           /\ taken = DOMAIN fut)

BatchCompleted ==
    /\ entry = "submit_batch"
    /\ pc = "done"
    /\ Len(imeis) = MaxImeis
    /\ total_batches > 1
    /\ \E c \in DOMAIN fut : fut[c].calls = MaxRetries
    /\ \E c \in DOMAIN fut : fut[c].calls = 1

\* The rows an insert of thread w sees: the committed rows and the rows of
\* its own open transaction.
Visible(w) == rows \cup writers[w].mine

SameRow(r, n) == n.order_id = r.order_id /\ n.copy = r.copy

UpdateKeepsData ==
    [][\A r \in rows : \A n \in rows' :
          SameRow(r, n) =>
            /\ \A f \in ResultFields : Truthy(r.data[f]) => n.data[f] = r.data[f]
                                                           \/ Truthy(n.data[f])
            /\ r.result_code # <<>> => n.result_code # <<>>
            /\ r.result_code_display # <<>> => n.result_code_display # <<>>
            /\ Truthy(r.status) => Truthy(n.status)]_vars

\* A row stored with carrier "Verizon" has been updated by the auto-parse
\* script from a result text that names no carrier.
CarrierKept ==
    \E r \in rows :
        /\ r.result_code # <<>>
        /\ ~Truthy(ParsedData(r.result_code)["carrier"])
        /\ r.data["carrier"] = "Verizon"
        /\ Truthy(r.data["model"])

\* C10: under every interleaving of inserts, transactions, sync cycles and
\* auto-parse updates, no step takes a stored row from Completed or
\* Rejected to another status than these two.
StatusMonotonic ==
    [][\A r \in rows : \A n \in rows' :
          (SameRow(r, n) /\ r.status \in TerminalStatuses) =>
              n.status \in TerminalStatuses]_vars

\* A Completed row has been written by the auto-parse script, its status
\* with it, while a sync cycle is under way.
TerminalRowUpdated ==
    /\ \E k \in {"sync_orders", "sync_and_parse_orders"} : cycles[k].pc = "selected"
    /\ \E r \in rows :
          /\ r.status \in TerminalStatuses
          /\ ParsedData(r.result_code)["carrier"] = "Verizon"
          /\ r.data["carrier"] = "Verizon"
          /\ r.data["model"] = "iPhone 12"

\* retry_failed: the identifiers it hands to submit_batch again.
RetryFailedImeis(failed_result) == UNION {e.imeis : e \in failed_result.errors}

AcceptedImeis(orders) == {o.imei : o \in orders}

\* C13: neither the failed identifiers of a checkpoint nor the identifiers
\* retry_failed submits again from the result of the batch include an
\* identifier the service accepted in that batch.
ResumeOnlyFailed ==
    entry = "submit_batch" =>
        /\ checkpoint # NoCheckpoint =>
              checkpoint.failed_imeis \cap AcceptedImeis(all_orders) = {}
        /\ pc = "done" =>
              RetryFailedImeis(result) \cap AcceptedImeis(result.orders) = {}

\* submit_batch has returned a result from which retry_failed submits an
\* identifier again whose accepted order is in the same result.
AcceptedResubmitted ==
    /\ entry = "submit_batch"
    /\ pc = "done"
    /\ RetryFailedImeis(result) \cap AcceptedImeis(result.orders) # {}

\* BatchProcessor.get_summary over a list of BatchResult.
GetSummary(results) ==
    [total      |-> Cardinality(results),
     successful |-> Cardinality({r \in results : r.success}),
     failed     |-> Cardinality({r \in results : ~r.success}),
     duplicates |-> Cardinality({r \in results : r.error = <<"Duplicate IMEI">>})]

\* C14: an identifier the service reports as already known counts as a
\* duplicate only: in the summary of BatchProcessor it adds to neither
\* successful nor failed and its result carries no error, and in
\* process_batch it is in neither the successful nor the error list.
DuplicatesThirdBucket ==
    /\ (entry = "process_with_retry" /\ bp.st = "returned"
            /\ GetSummary({bp.result}).duplicates = 1) =>
          /\ GetSummary({bp.result}).successful = 0
          /\ GetSummary({bp.result}).failed = 0
    /\ entry = "process_batch" =>
          \A c \in DOMAIN fut : \A i \in fut[c].duplicates :
              /\ i \notin {s.imei : s \in fut[c].successful}
              /\ i \notin {e.imei : e \in fut[c].errors}

\* _process_with_retry has returned the result of an order the service
\* answered as a duplicate, and the summary counts it as failed.
DuplicateCountedFailed ==
    /\ entry = "process_with_retry"
    /\ bp.st = "returned"
    /\ GetSummary({bp.result}).duplicates = 1
    /\ GetSummary({bp.result}).failed = 1

\* The chunks whose worker has returned.
Finished == {c \in DOMAIN fut : fut[c].st = "done"}

\* C15: the checkpoint file never claims more completed chunks than chunks
\* whose submission has finished, nor more than there are chunks, whatever
\* the order in which the chunks complete.
CheckpointSound ==
    (entry = "submit_batch" /\ checkpoint # NoCheckpoint) =>
        /\ checkpoint.completed_batches <= Cardinality(Finished)
        /\ checkpoint.completed_batches <= checkpoint.total_batches
        /\ checkpoint.total_batches = total_batches

\* A checkpoint was written for the second chunk while the first is still
\* being submitted.
CheckpointOutOfOrder ==
    /\ entry = "submit_batch"
    /\ total_batches = 2
    /\ checkpoint # NoCheckpoint
    /\ checkpoint.completed_batches = 1
    /\ taken = {2}
    /\ fut[1].st = "running"

\* What handling the result of chunk c gives when its checkpoint is written.
HandledWithCheckpoint(c, store_raised, cb_raised) ==
    LET stored == all_errors \cup fut[c].errors
                  \cup (IF store_raised
                        THEN {StoreFailureRecord(GenerateBatchId(batches[c]), fut[c].orders)}
                        ELSE {})
    IN  [orders |-> all_orders \cup fut[c].orders,
         errors |-> IF cb_raised THEN stored \cup {ResultProcessingError(c)} ELSE stored,
         processed |-> processed_batches + 1]

\* C16: a checkpoint write that fails changes nothing else: the chunk's
\* result is aggregated as when the write succeeds, the loop goes on, and
\* submit_batch returns only when every chunk has been handled, with the
\* totals, orders and error records aggregated.
CheckpointFailureHarmless ==
    [][entry = "submit_batch" =>
        /\ \A c \in DOMAIN fut :
              (c \in taken' \ taken /\ "checkpoint" \in faults'[c]) =>
                  LET h == HandledWithCheckpoint(c, "store" \in faults'[c],
                                                 "callback" \in faults'[c])
                  IN  /\ all_orders' = h.orders
                      /\ all_errors' = h.errors
                      /\ processed_batches' = h.processed
                      /\ pc' = "running"
        /\ pc' = "done" =>
              /\ taken' = DOMAIN fut
              /\ processed_batches' = total_batches
              /\ result'.orders = all_orders
              /\ result'.errors = all_errors
              /\ result'.successful = Cardinality(all_orders)
              /\ result'.failed = Cardinality(all_errors)]_vars

\* submit_batch has returned orders of two chunks although no checkpoint
\* could be written.
ReturnedWithoutCheckpoint ==
    /\ entry = "submit_batch"
    /\ pc = "done"
    /\ total_batches = 2
    /\ \A c \in DOMAIN fut : "checkpoint" \in faults[c] /\ fut[c].orders # {}
    /\ checkpoint = NoCheckpoint
    /\ result.successful = 2

\* C11: after any sequence of submissions (repeated ones and forced
\* rechecks included) and inserts, the table holds at most one row for an
\* identifier.
OneRecordPerIdentifier ==
    \A i \in Imeis : Cardinality(GetOrdersByImei(rows, i)) <= 1

\* The same identifier was submitted twice, accepted twice, and is stored
\* under two order ids.
IdentifierStoredTwice ==
    \E i \in Imeis : \E r1, r2 \in GetOrdersByImei(rows, i) : r1.order_id # r2.order_id

\* C12: a request without force_recheck never calls the service for an
\* identifier that has a stored order; only a request with force_recheck
\* submits such an identifier again.
ResubmissionShortCircuit ==
    \A r \in DOMAIN requests :
        (requests[r].called /\ ~requests[r].force_recheck) => requests[r].known = {}

\* /submit-stream found a stored order for an identifier, no recheck was
\* forced, and the identifier went to the service all the same.
KnownIdentifierSubmitted ==
    \E r \in DOMAIN requests :
        /\ requests[r].route = "submit_stream"
        /\ ~requests[r].force_recheck
        /\ requests[r].existing_count > 0
        /\ requests[r].called
        /\ requests[r].known # {}


\* C17: a reconciliation run that finds no non-terminal record makes no call
\* to the external service and leaves every stored record as it was: in
\* every step of an invocation whose select found no order id, the number of
\* service calls stays zero, the table is unchanged and the invocation has
\* ended.
NoPendingNoCalls ==
    [][\A i \in DOMAIN inv :
          inv'[i] # inv[i] /\ inv'[i].ids = {} =>
              /\ inv'[i].calls = 0
              /\ inv'[i].pc \in {"returned", "raised"}
              /\ rows' = rows]_vars

\* A cycle of the web application returned over a table that holds only
\* terminal records, without a call.
NoPendingReturned ==
    /\ rows # {}
    /\ PendingOrderIds(rows) = {}
    /\ \E i \in DOMAIN inv :
          /\ inv[i].kind = "sync_and_parse_orders"
          /\ inv[i].pc = "returned"
          /\ inv[i].ids = {}
          /\ inv[i].calls = 0


\* C18: reconciliation applies what it polls: when an iteration of
\* sync_and_parse_orders has handled the polled record of an outstanding
\* order, the stored record of that order holds the polled status and, for
\* a completed order with result text, the fields parsed from the text.
PolledApplied ==
    [][\A i \in DOMAIN inv :
          /\ inv[i].kind = "sync_and_parse_orders"
          /\ inv[i].pc = "updating"
          /\ inv'[i].processed = inv[i].processed + 1
          => \A r \in rows' :
                r.order_id = inv'[i].last.id =>
                   /\ r.status = inv'[i].last.status
                   /\ inv'[i].last.status = "Completed" /\ inv'[i].last.code # <<>> =>
                         \A f \in ResultFields :
                            Truthy(ParsedData(inv'[i].last.code)[f]) =>
                               r.data[f] = ParsedData(inv'[i].last.code)[f]]_vars

\* A cycle handled a completed order with result text and returned; the
\* stored record is still pending.
PolledNotApplied ==
    \E i \in DOMAIN inv :
       /\ inv[i].kind = "sync_and_parse_orders"
       /\ inv[i].pc = "returned"
       /\ inv[i].processed > 0
       /\ inv[i].last.status = "Completed"
       /\ inv[i].last.code # <<>>
       /\ \E r \in rows : r.order_id = inv[i].last.id /\ r.status = "Pending"


OneCycleAtATime ==
    Cardinality({i \in DOMAIN inv :
                    /\ inv[i].kind = "sync_and_parse_orders"
                    /\ inv[i].pc \in {"polling", "updating"}}) <= 1

\* Two invocations of sync_and_parse_orders are in the update loop together,
\* over the same order ids.
OverlappingCycles ==
    \E i, j \in DOMAIN inv :
       /\ i # j
       /\ inv[i].kind = "sync_and_parse_orders"
       /\ inv[j].kind = "sync_and_parse_orders"
       /\ inv[i].pc = "updating"
       /\ inv[j].pc = "updating"
       /\ inv[i].orders \cap inv[j].orders # {}


RECURSIVE Flatten(_)
Flatten(chunks) ==
    IF chunks = <<>> THEN <<>> ELSE Head(chunks) \o Flatten(Tail(chunks))

\* C21: the chunker is lossless: for every identifier list and every chunk
\* size of at least 1, the chunks of _chunk_imeis and of _chunk_list,
\* concatenated in order, are the list; every chunk but the last has
\* exactly the chunk size and the last has between one entry and the chunk
\* size, so that no identifier is lost, repeated or moved to another chunk.
ChunkerLossless ==
    fn.op \in {"_chunk_imeis", "_chunk_list"} =>
       /\ Flatten(fn.out) = fn.args[1]
       /\ \A k \in 1..Len(fn.out) :
             /\ Len(fn.out[k]) \in 1..fn.args[2]
             /\ k < Len(fn.out) => Len(fn.out[k]) = fn.args[2]

\* A list of four entries with a repeated identifier was cut with chunk
\* size 3: the last chunk is shorter than the chunk size.
ShortLastChunk ==
    /\ fn.op = "_chunk_list"
    /\ Len(fn.args[1]) = 4
    /\ fn.args[1][1] = fn.args[1][4]
    /\ fn.args[2] = 3
    /\ Len(fn.out) = 2
    /\ Len(fn.out[2]) = 1


\* The fields the pairs name, each with the value of the pair at position
\* Pick(S), S the positions of the pairs naming the field.
FieldsOf(ps, Pick(_)) ==
    [f \in TextFields |->
        LET at == {i \in 1..Len(ps) : HeaderToField[ps[i].label] = f}
        IN  IF at = {} THEN <<>> ELSE ps[Pick(at)].value]

First(S) == CHOOSE i \in S : \A j \in S : i <= j

DistinctFields(ps) ==
    \A i, j \in 1..Len(ps) :
       HeaderToField[ps[i].label] = HeaderToField[ps[j].label] => i = j

\* C22: parser round trip: a text built by joining "Label: Value" pairs of
\* distinct fields under their canonical labels with newlines is parsed
\* back to exactly those fields and values, whatever the letter case of the
\* labels and the blanks around labels and values.
ParserRoundTrip ==
    /\ fn.done
    /\ fn.op = "parse"
    /\ fn.args.sep = NL
    /\ DistinctFields(fn.args.pairs)
    /\ \A i \in 1..Len(fn.args.pairs) : fn.args.pairs[i].label \in ExpectedHeaders
    => fn.out = FieldsOf(fn.args.pairs, First)

\* Two pairs with upper-case labels, blanks on every side and a value with
\* a colon were parsed back.
RoundTripPadded ==
    /\ fn.done
    /\ fn.op = "parse"
    /\ fn.args.sep = NL
    /\ Len(fn.args.pairs) = 2
    /\ \A i \in 1..2 : /\ fn.args.pairs[i].case = "upper"
                       /\ fn.args.pairs[i].pad.bl
                       /\ fn.args.pairs[i].pad.al
                       /\ fn.args.pairs[i].pad.av
    /\ fn.out["imei_number"] = <<Word("10"), COLON, Word("30")>>
    /\ fn.out["model"] = <<Word("iPhone"), WS, Word("12")>>


\* C23: the HTML scenario: parsing "Carrier: T-Mobile<br/>Model: iPhone
\* 12<br/>Simlock: Unlocked" yields exactly carrier "T-Mobile", model
\* "iPhone 12" and simlock "Unlocked", and no returned value holds an HTML
\* tag or a following label.
HtmlScenario ==
    fn.done /\ fn.op = "parse" /\ fn.args.sep = BR =>
       /\ fn.out = FieldsOf(HtmlPairs, First)
       /\ \A f \in TextFields :
             \A i \in 1..Len(fn.out[f]) : fn.out[f][i].k \notin {"tag", "label"}

\* The scenario text was parsed to a carrier that holds the tags and the
\* two following labels, and to no model and no simlock.
HtmlFragmentsReturned ==
    /\ fn.done
    /\ fn.op = "parse"
    /\ fn.args.sep = BR
    /\ fn.out["carrier"] = SubSeq(fn.args.text, 4, Len(fn.args.text))
    /\ fn.out["model"] = <<>>
    /\ fn.out["simlock"] = <<>>


\* No value holds a label.
ValuesFreeOfLabels(ps) ==
    \A i \in 1..Len(ps) : \A j \in 1..Len(ps[i].value) : ps[i].value[j].k # "label"

\* C24: single-line equivalence: for pairs whose values hold no known
\* label, parsing the pairs flattened onto one line, separated by blanks
\* only, returns the same fields as parsing them one pair per line,
\* whatever the length of the text and whichever alias each label uses.
SingleLineEquivalence ==
    /\ fn.done
    /\ fn.op = "parse"
    /\ fn.args.sep = WS
    /\ ValuesFreeOfLabels(fn.args.pairs)
    => fn.out = Parse(JoinPairs(fn.args.pairs, NL), fn.args.long)

\* A line of more than 100 characters "Model: iPhone 12 Network: Unlocked"
\* was parsed to a model that holds the second pair, and to no carrier.
SingleLineAliasLost ==
    /\ fn.done
    /\ fn.op = "parse"
    /\ fn.args.sep = WS
    /\ fn.args.long
    /\ ValuesFreeOfLabels(fn.args.pairs)
    /\ Len(fn.args.pairs) = 2
    /\ fn.args.pairs[1].label = "model"
    /\ fn.args.pairs[2].label = "network"
    /\ fn.out["carrier"] = <<>>
    /\ Len(fn.out["model"]) > Len(fn.args.pairs[1].value)
    /\ Parse(JoinPairs(fn.args.pairs, NL), fn.args.long)["carrier"]
          = fn.args.pairs[2].value


FirstOccurrenceWins ==
    /\ fn.done
    /\ fn.op = "parse"
    /\ fn.args.sep = NL
    /\ ~DistinctFields(fn.args.pairs)
    => fn.out = FieldsOf(fn.args.pairs, First)

\* "Carrier: Unlocked" followed on the next line by "Network: iPhone 12"
\* was parsed to the carrier "iPhone 12".
LastOccurrenceReturned ==
    /\ fn.done
    /\ fn.op = "parse"
    /\ fn.args.sep = NL
    /\ Len(fn.args.pairs) = 2
    /\ fn.args.pairs[1].label = "carrier"
    /\ fn.args.pairs[2].label = "network"
    /\ fn.args.pairs[1].value = <<Word("Unlocked")>>
    /\ fn.args.pairs[2].value = <<Word("iPhone"), WS, Word("12")>>
    /\ fn.out["carrier"] = fn.args.pairs[2].value


\* The attempts of chunk c that failed so far.
FailedAttempts(c) == IF fut[c].last = "ok" THEN fut[c].calls - 1 ELSE fut[c].calls

\* C26: the backoff schedule of submit_batch: after the k-th failed attempt
\* of a chunk, k < max_retries, the worker sleeps retry_delay * 2^(k-1)
\* before attempt k+1, for an API error and for an unexpected exception
\* alike, and it does not sleep after the last failed attempt.
BackoffSchedule ==
    entry = "submit_batch" =>
       \A c \in DOMAIN fut :
          /\ Len(fut[c].slept) = Min(FailedAttempts(c), MaxRetries - 1)
          /\ \A k \in 1..Len(fut[c].slept) : fut[c].slept[k] = RetryDelay * 2 ^ (k - 1)

\* A chunk failed max_retries times, first by an API error and last by an
\* unexpected exception, and slept after the first two failures only.
BackoffExhausted ==
    /\ entry = "submit_batch"
    /\ \E c \in DOMAIN fut :
          /\ fut[c].st = "done"
          /\ fut[c].calls = MaxRetries
          /\ fut[c].rejected_at = 1
          /\ fut[c].last = "garbage"
          /\ fut[c].slept = <<RetryDelay, 2 * RetryDelay>>


\* The buckets of the result of chunk c that hold identifier i.
BucketsOf(c, i) ==
    {b \in {"successful", "duplicates", "errors"} :
        \/ b = "successful" /\ \E s \in fut[c].successful : s.imei = i
        \/ b = "duplicates" /\ i \in fut[c].duplicates
        \/ b = "errors" /\ \E e \in fut[c].errors : e.imei = i}

\* C28: the one-identifier-per-call fallback of _submit_chunk: when the
\* chunk was submitted identifier by identifier (chunk_size 1, or the batch
\* call raised), every identifier of the chunk is in exactly one of the
\* buckets successful, duplicates and errors of the chunk's result,
\* whatever the service answered to the individual calls.
FallbackBuckets ==
    entry = "process_batch" =>
       \A c \in DOMAIN fut :
          fut[c].st = "done" /\ fut[c].mode = "individual" =>
             \A i \in Range(batches[c]) : Cardinality(BucketsOf(c, i)) = 1

\* The individual call for an identifier was answered without orders,
\* duplicates and errors, and the chunk's result holds the identifier in no
\* bucket.
FallbackIdentifierDropped ==
    /\ entry = "process_batch"
    /\ \E c \in DOMAIN fut :
          /\ fut[c].st = "done"
          /\ fut[c].mode = "individual"
          /\ fut[c].last = "ok"
          /\ \E i \in Range(batches[c]) : BucketsOf(c, i) = {}


\* The service answered that the identifiers already exist.
AlreadyExists(args) ==
    \/ args.raw.msg = "IMEI already exists"
    \/ args.raw.kind = "ok" /\ args.raw.dup = args.imei

\* C29: force_recheck in place_imei_order: when the service answers that
\* the identifier already exists, the call does not raise; without
\* force_recheck the submitted identifiers are returned in 'duplicates' and
\* 'errors' is empty, and with force_recheck they are not in 'duplicates'
\* and 'errors' holds an entry.
ForceRecheckClassified ==
    fn.done /\ fn.op = "place_imei_order" /\ AlreadyExists(fn.args) =>
       /\ fn.out.exc = "none"
       /\ ~fn.args.force_recheck =>
             fn.out.duplicates = fn.args.imei /\ fn.out.errors = {}
       /\ fn.args.force_recheck =>
             fn.out.duplicates \cap fn.args.imei = {} /\ fn.out.errors # {}

\* A call without force_recheck answered by <error>IMEI already
\* exists</error> raised GSMFusionAPIError.
AlreadyExistsRaised ==
    /\ fn.done
    /\ fn.op = "place_imei_order"
    /\ ~fn.args.force_recheck
    /\ fn.args.raw.kind = "error"
    /\ fn.args.raw.msg = "IMEI already exists"
    /\ fn.out.exc = "api"
    /\ fn.out.duplicates = {}


\* C30: the progress bound: in every call of the progress callback of
\* process_batch and of submit_batch the processed count reported is at
\* most the total reported, for every number of identifiers and every
\* chunk size, a last chunk shorter than the chunk size included.
ProgressBound ==
    progress # NoProgress => progress.processed <= progress.total

\* process_batch with one identifier and chunk size 2 reported 2 of 1
\* processed.
ProgressOverTotal ==
    /\ entry = "process_batch"
    /\ Len(imeis) = 1
    /\ batch_size = 2
    /\ progress # NoProgress
    /\ progress.processed = 2
    /\ progress.total = 1

====
